---- MODULE Spec2Model ----
(***************************************************************************)
(* Account management of django_codebase: the JSON API of accounts_app     *)
(* (create / profile / update / delete), the form login and logout, the   *)
(* login identity resolver and the UserSerializer.                         *)
(*                                                                         *)
(* Strings are sequences of one-character strings, so that the email       *)
(* pattern, the length limits and the integer / date / decimal parsers are *)
(* computed on the characters, as the code computes them.                  *)
(***************************************************************************)
EXTENDS Integers, Sequences, FiniteSets, TLC

(***************************************************************************)
(* Bounds of the model.                                                    *)
(***************************************************************************)
MaxUsers == 2
MaxSteps == 4

(***************************************************************************)
(* Characters.                                                             *)
(***************************************************************************)
Digits == {"0", "1", "2", "3", "4", "5", "6", "7", "8", "9"}
Letters == {"a", "b", "p", "q", "x", "F", "L"}
Alnum == Letters \cup Digits

Rep(c, n) == [i \in 1..n |-> c]

DigitVal(c) ==
    CASE c = "0" -> 0 [] c = "1" -> 1 [] c = "2" -> 2 [] c = "3" -> 3
      [] c = "4" -> 4 [] c = "5" -> 5 [] c = "6" -> 6 [] c = "7" -> 7
      [] c = "8" -> 8 [] c = "9" -> 9

DigitChar(d) ==
    CASE d = 0 -> "0" [] d = 1 -> "1" [] d = 2 -> "2" [] d = 3 -> "3"
      [] d = 4 -> "4" [] d = 5 -> "5" [] d = 6 -> "6" [] d = 7 -> "7"
      [] d = 8 -> "8" [] d = 9 -> "9"

AllIn(s, lo, hi, class) == \A k \in lo..hi : s[k] \in class

RECURSIVE DigitsToNat(_)
DigitsToNat(s) ==
    IF s = <<>> THEN 0
    ELSE 10 * DigitsToNat(SubSeq(s, 1, Len(s) - 1)) + DigitVal(s[Len(s)])

RECURSIVE NatToDigits(_)
NatToDigits(n) ==
    IF n < 10 THEN <<DigitChar(n)>>
    ELSE NatToDigits(n \div 10) \o <<DigitChar(n % 10)>>

Pad2(n) == IF n < 10 THEN <<"0">> \o NatToDigits(n) ELSE NatToDigits(n)

(***************************************************************************)
(* helper/Get_Username_Object.py: email_regex, applied with re.match       *)
(*   ^[a-zA-Z0-9_.+-]+@[a-zA-Z0-9-]+\.[a-zA-Z0-9-.]+$                      *)
(***************************************************************************)
RegexLocal == Alnum \cup {"_", ".", "+", "-"}
RegexDomain == Alnum \cup {"-"}
RegexTail == Alnum \cup {"-", "."}

email_regex(s) ==
    \E i \in 1..Len(s) : \E j \in 1..Len(s) :
        /\ 1 < i /\ i + 1 < j /\ j < Len(s)
        /\ s[i] = "@" /\ s[j] = "."
        /\ AllIn(s, 1, i - 1, RegexLocal)
        /\ AllIn(s, i + 1, j - 1, RegexDomain)
        /\ AllIn(s, j + 1, Len(s), RegexTail)

(***************************************************************************)
(* serializers.EmailField: the framework's email validator.  The value is  *)
(* split at its last "@"; the user part is a dot-atom, the domain a list   *)
(* of labels followed by a top-level label of two characters or more.      *)
(***************************************************************************)
AText == Alnum \cup {"!", "+", "-", "_"}

DotAtom(s) ==
    /\ Len(s) > 0
    /\ AllIn(s, 1, Len(s), AText \cup {"."})
    /\ s[1] # "." /\ s[Len(s)] # "."
    /\ \A k \in 1..(Len(s) - 1) : ~(s[k] = "." /\ s[k + 1] = ".")

DomainLabel(s) ==
    /\ Len(s) > 0 /\ Len(s) <= 63
    /\ AllIn(s, 1, Len(s), Alnum \cup {"-"})
    /\ s[1] \in Alnum /\ s[Len(s)] \in Alnum

RECURSIVE DomainLabels(_)
DomainLabels(s) ==
    \/ s = <<>>
    \/ \E k \in 2..Len(s) :
          /\ s[k] = "."
          /\ DomainLabel(SubSeq(s, 1, k - 1))
          /\ DomainLabels(SubSeq(s, k + 1, Len(s)))

DomainPart(s) ==
    \E k \in 2..Len(s) :
        /\ s[k] = "."
        /\ \A m \in (k + 1)..Len(s) : s[m] # "."
        /\ DomainLabels(SubSeq(s, 1, k))
        /\ Len(s) - k >= 2 /\ Len(s) - k <= 63
        /\ AllIn(s, k + 1, Len(s), Alnum \cup {"-"})
        /\ s[Len(s)] # "-"

EmailValid(s) ==
    \E i \in 1..Len(s) :
        /\ s[i] = "@"
        /\ \A m \in (i + 1)..Len(s) : s[m] # "@"
        /\ DotAtom(SubSeq(s, 1, i - 1))
        /\ DomainPart(SubSeq(s, i + 1, Len(s)))

(***************************************************************************)
(* Field parsers of the serializer fields (IntegerField, DateField,        *)
(* DecimalField).  A stored null is <<>>; a national id n is <<n>>, a date *)
(* <<y, m, d>> and a decimal its number of hundredths.                     *)
(***************************************************************************)
JNull == <<"null">>

IsIntString(s) ==
    /\ Len(s) > 0
    /\ IF s[1] = "-" THEN Len(s) > 1 /\ AllIn(s, 2, Len(s), Digits)
                     ELSE AllIn(s, 1, Len(s), Digits)

ParseInt(s) ==
    IF s[1] = "-" THEN 0 - DigitsToNat(SubSeq(s, 2, Len(s)))
    ELSE DigitsToNat(s)

IsLeap(y) == (y % 4 = 0 /\ y % 100 # 0) \/ y % 400 = 0

DaysInMonth(y, m) ==
    IF m = 2 THEN (IF IsLeap(y) THEN 29 ELSE 28)
    ELSE IF m \in {4, 6, 9, 11} THEN 30 ELSE 31

\* 'YYYY-MM-DD'
IsDateString(s) ==
    /\ Len(s) = 10
    /\ s[5] = "-" /\ s[8] = "-"
    /\ AllIn(s, 1, 4, Digits) /\ AllIn(s, 6, 7, Digits) /\ AllIn(s, 9, 10, Digits)
    /\ LET y == DigitsToNat(SubSeq(s, 1, 4))
           m == DigitsToNat(SubSeq(s, 6, 7))
           d == DigitsToNat(SubSeq(s, 9, 10))
       IN  y >= 1 /\ m \in 1..12 /\ d >= 1 /\ d <= DaysInMonth(y, m)

ParseDate(s) ==
    <<DigitsToNat(SubSeq(s, 1, 4)), DigitsToNat(SubSeq(s, 6, 7)),
      DigitsToNat(SubSeq(s, 9, 10))>>

FormatDate(d) ==
    (IF d[1] < 10 THEN <<"0", "0", "0">>
     ELSE IF d[1] < 100 THEN <<"0", "0">>
     ELSE IF d[1] < 1000 THEN <<"0">> ELSE <<>>)
    \o NatToDigits(d[1]) \o <<"-">> \o Pad2(d[2]) \o <<"-">> \o Pad2(d[3])

\* digits, optionally one "." followed by digits
DotPos(s) == IF \E k \in 1..Len(s) : s[k] = "."
             THEN CHOOSE k \in 1..Len(s) : s[k] = "." ELSE Len(s) + 1

IsDecimalString(s) ==
    /\ Len(s) > 0
    /\ LET k == DotPos(s)
       IN  /\ AllIn(s, 1, k - 1, Digits)
           /\ AllIn(s, k + 1, Len(s), Digits)
           /\ (IF k <= Len(s) THEN Len(s) - 1 ELSE Len(s)) > 0

DecimalPlaces(s) == IF DotPos(s) > Len(s) THEN 0 ELSE Len(s) - DotPos(s)

DecimalCoef(s) ==
    DigitsToNat(SubSeq(s, 1, DotPos(s) - 1) \o SubSeq(s, DotPos(s) + 1, Len(s)))

\* DecimalField.validate_precision
TotalDigits(s) ==
    LET nd == Len(NatToDigits(DecimalCoef(s))) dp == DecimalPlaces(s)
    IN  IF nd >= dp THEN nd ELSE dp

WholeDigits(s) == TotalDigits(s) - DecimalPlaces(s)

\* the value quantized to two decimal places, in hundredths
ParseDecimal(s) ==
    LET dp == DecimalPlaces(s)
    IN  IF dp = 0 THEN DecimalCoef(s) * 100
        ELSE IF dp = 1 THEN DecimalCoef(s) * 10 ELSE DecimalCoef(s)

FormatDecimal(c) == NatToDigits(c \div 100) \o <<".">> \o Pad2(c % 100)

(***************************************************************************)
(* accounts_app/serializers.py: the declared fields of UserSerializer.     *)
(***************************************************************************)
Fields == <<"username", "first_name", "last_name", "email", "password",
            "birthdate", "nationalid", "phonenumber", "wallet">>

FieldSet == {Fields[i] : i \in 1..Len(Fields)}

CharFields == {"username", "first_name", "last_name", "email", "password",
               "phonenumber"}

RequiredFields == {"username", "email", "password", "phonenumber"}
AllowBlank == {"first_name", "last_name"}
AllowNull == {"birthdate", "nationalid"}
\* variant: no field is write_only
WriteOnly_none == {}

WriteOnly == {"password"}

UsernameMaxLength == 150
FirstNameMaxLength == 30
LastNameMaxLength == 150
PhoneMaxLength == 20
WalletMaxDigits == 12
WalletDecimalPlaces == 2

TooLong(f, s) ==
    \/ f = "username" /\ Len(s) > UsernameMaxLength
    \/ f = "first_name" /\ Len(s) > FirstNameMaxLength
    \/ f = "last_name" /\ Len(s) > LastNameMaxLength
    \/ f = "phonenumber" /\ Len(s) > PhoneMaxLength

Ok(v) == [err |-> "", val |-> v]
Bad(code) == [err |-> code, val |-> <<>>]

\* Field.run_validation of one supplied field: null, blank, conversion,
\* then the validators.
ValidateField(f, raw) ==
    IF raw = JNull THEN (IF f \in AllowNull THEN Ok(<<>>) ELSE Bad("null"))
    ELSE IF f \in CharFields THEN
        IF raw = <<>> THEN (IF f \in AllowBlank THEN Ok(raw) ELSE Bad("blank"))
        ELSE IF f = "email" /\ ~EmailValid(raw) THEN Bad("invalid")
        ELSE IF TooLong(f, raw) THEN Bad("max_length")
        ELSE Ok(raw)
    ELSE IF f = "birthdate" THEN
        IF IsDateString(raw) THEN Ok(ParseDate(raw)) ELSE Bad("invalid")
    ELSE IF f = "nationalid" THEN
        IF IsIntString(raw) THEN Ok(<<ParseInt(raw)>>) ELSE Bad("invalid")
    ELSE
        IF ~IsDecimalString(raw) THEN Bad("invalid")
        ELSE IF TotalDigits(raw) > WalletMaxDigits THEN Bad("max_digits")
        ELSE IF DecimalPlaces(raw) > WalletDecimalPlaces
             THEN Bad("max_decimal_places")
        ELSE IF WholeDigits(raw) > WalletMaxDigits - WalletDecimalPlaces
             THEN Bad("max_whole_digits")
        ELSE Ok(ParseDecimal(raw))

\* variant: no field is required
MissingRequired_none(data, partial) == {}

\* Serializer.to_internal_value
MissingRequired(data, partial) ==
    IF partial THEN {} ELSE RequiredFields \ DOMAIN data

\* errors: the error of every failing field, keyed by field; validated: the
\* converted value of every supplied field
run_validation(data, partial) ==
    LET checked == [f \in DOMAIN data \cap FieldSet |-> ValidateField(f, data[f])]
        failing == {f \in DOMAIN checked : checked[f].err # ""}
    IN  [errors |-> [f \in failing \cup MissingRequired(data, partial) |->
                        IF f \in failing THEN checked[f].err ELSE "required"],
         validated |-> [f \in DOMAIN checked |-> checked[f].val]]

is_valid(serializer) == DOMAIN serializer.errors = {}

(***************************************************************************)
(* The User table (accounts_app.models.User): rows keyed by id, username   *)
(* unique, columns not given on insert take their defaults.                *)
(***************************************************************************)
Get(d, k, default) == IF k \in DOMAIN d THEN d[k] ELSE default

ColumnDefaults ==
    [username |-> <<>>, first_name |-> <<>>, last_name |-> <<>>,
     email |-> <<>>, password |-> <<>>, birthdate |-> <<>>,
     nationalid |-> <<>>, phonenumber |-> <<>>, wallet |-> 0]

UniqueViolation(tbl, id, username) ==
    \E j \in DOMAIN tbl \ {id} : tbl[j].username = username

\* User.objects.create(**kwargs)
objects_create(tbl, nid, kwargs) ==
    LET row == [f \in FieldSet \cup {"id"} |->
                   IF f = "id" THEN nid
                   ELSE Get(kwargs, f, ColumnDefaults[f])]
    IN  IF UniqueViolation(tbl, nid, row.username)
        THEN [exc |-> "IntegrityError", tbl |-> tbl, id |-> 0]
        ELSE [exc |-> "", tbl |-> (nid :> row) @@ tbl, id |-> nid]

\* Model.save(): every column of the row is written
save(tbl, instance) ==
    IF instance.id = 0
    THEN [exc |-> "NotImplementedError", tbl |-> tbl]
    ELSE IF UniqueViolation(tbl, instance.id, instance.username)
    THEN [exc |-> "IntegrityError", tbl |-> tbl]
    ELSE [exc |-> "", tbl |-> (instance.id :> instance) @@ tbl]

\* Model.delete()
objects_delete(tbl, id) ==
    IF id = 0
    THEN [exc |-> "NotImplementedError", tbl |-> tbl]
    ELSE [exc |-> "", tbl |-> [j \in DOMAIN tbl \ {id} |-> tbl[j]]]

\* User.objects.get(**{column: value}): exactly one row, or an exception
objects_get(tbl, column, value) ==
    LET hits == {j \in DOMAIN tbl : tbl[j][column] = value}
    IN  IF Cardinality(hits) = 1 THEN CHOOSE j \in hits : TRUE ELSE 0

\* django.contrib.auth.authenticate: the user of that username when the
\* password is the stored credential, None (0) otherwise
authenticate(tbl, username, password) ==
    LET hits == {j \in DOMAIN tbl : tbl[j].username = username
                                    /\ tbl[j].password = password}
    IN  IF hits = {} THEN 0 ELSE CHOOSE j \in hits : TRUE

\* AnonymousUser, the request.user of a request without a session user
AnonymousUser == [f \in FieldSet \cup {"id"} |-> IF f = "wallet" THEN 0
                                                 ELSE IF f = "id" THEN 0 ELSE <<>>]

(***************************************************************************)
(* accounts_app/serializers.py: UserSerializer.                            *)
(***************************************************************************)
\* variant: update_or_create keyed by username
create_or_replace(tbl, nid, vd) ==
    LET held == {j \in DOMAIN tbl : tbl[j].username = Get(vd, "username", <<>>)}
    IN  IF held = {} THEN objects_create(tbl, nid, vd)
        ELSE LET j == CHOOSE k \in held : TRUE
             IN  [exc |-> "", id |-> j,
                  tbl |-> [tbl EXCEPT ![j] =
                             [f \in DOMAIN tbl[j] |-> Get(vd, f, tbl[j][f])]]]

create(tbl, nid, vd) == objects_create(tbl, nid, vd)

\* variant: validated_data.get(name) without the current value as default
update_clearing(tbl, instance, vd) ==
    LET merged ==
          [instance EXCEPT
             !.username = Get(vd, "username", instance.username),
             !.first_name = Get(vd, "first_name", <<>>),
             !.last_name = Get(vd, "last_name", <<>>),
             !.email = Get(vd, "email", instance.email),
             !.birthdate = Get(vd, "birthdate", <<>>),
             !.nationalid = Get(vd, "nationalid", <<>>),
             !.phonenumber = Get(vd, "phonenumber", instance.phonenumber),
             !.wallet = Get(vd, "wallet", instance.wallet)]
    IN  save(tbl, merged)

update(tbl, instance, vd) ==
    LET merged ==
          [instance EXCEPT
             !.username = Get(vd, "username", instance.username),
             !.first_name = Get(vd, "first_name", instance.first_name),
             !.last_name = Get(vd, "last_name", instance.last_name),
             !.email = Get(vd, "email", instance.email),
             !.birthdate = Get(vd, "birthdate", instance.birthdate),
             !.nationalid = Get(vd, "nationalid", instance.nationalid),
             !.phonenumber = Get(vd, "phonenumber", instance.phonenumber),
             !.wallet = Get(vd, "wallet", instance.wallet)]
    IN  save(tbl, merged)

\* Serializer.data: every field that is not write_only, in its output form
RepresentedFields == (FieldSet \cup {"id"}) \ WriteOnly

to_representation(instance) ==
    [f \in RepresentedFields |->
        IF f = "birthdate"
        THEN (IF instance.birthdate = <<>> THEN JNull
              ELSE FormatDate(instance.birthdate))
        ELSE IF f = "nationalid"
        THEN (IF instance.nationalid = <<>> THEN JNull
              ELSE IF instance.nationalid[1] < 0
              THEN <<"-">> \o NatToDigits(0 - instance.nationalid[1])
              ELSE NatToDigits(instance.nationalid[1]))
        ELSE IF f = "wallet" THEN FormatDecimal(instance.wallet)
        ELSE IF f = "id" THEN NatToDigits(instance.id)
        ELSE instance[f]]

(***************************************************************************)
(* helper/Get_Username_Object.py: GetUserObject.get_user_from_form.        *)
(* The result is the id of the resolved user, 0 for (None, None).          *)
(***************************************************************************)
\* variant: a failed lookup by email is retried by username
get_user_from_form_fallback(tbl, username_or_email) ==
    IF email_regex(username_or_email)
         /\ objects_get(tbl, "email", username_or_email) # 0
    THEN objects_get(tbl, "email", username_or_email)
    ELSE objects_get(tbl, "username", username_or_email)

get_user_from_form(tbl, username_or_email) ==
    IF email_regex(username_or_email)
    THEN objects_get(tbl, "email", username_or_email)
    ELSE objects_get(tbl, "username", username_or_email)

(***************************************************************************)
(* accounts_app/views.py: the handlers, as functions of the table and the  *)
(* request.  A response is its status and its body; the body has a         *)
(* message, a user_id, an error (names -> codes) and the profile data.     *)
(***************************************************************************)
Body(message, user_id, error, data) ==
    [message |-> message, user_id |-> user_id, error |-> error, data |-> data]

Response(status, body, tbl) == [status |-> status, body |-> body, tbl |-> tbl]

HTTP_200_OK == 200
HTTP_201_CREATED == 201
HTTP_302_FOUND == 302
HTTP_400_BAD_REQUEST == 400
HTTP_403_FORBIDDEN == 403
HTTP_500_INTERNAL_SERVER_ERROR == 500

AllowAny(user) == TRUE
IsAuthenticated(user) == user.id # 0

CreatePermission(user) == AllowAny(user)
UpdatePermission(user) == IsAuthenticated(user)
\* variant: the delete endpoint is open
DeletePermission_open(user) == AllowAny(user)

DeletePermission(user) == IsAuthenticated(user)

\* APIView.permission_denied for a request without credentials
NotAuthenticated(tbl) ==
    Response(HTTP_403_FORBIDDEN,
             Body("", 0, "detail" :> "not_authenticated", <<>>), tbl)

CreateUserAPI_post(tbl, nid, data) ==
    LET serializer == run_validation(data, FALSE)
    IN
    IF ~is_valid(serializer)
    THEN Response(HTTP_500_INTERNAL_SERVER_ERROR,
                  Body("", 0, serializer.errors, <<>>), tbl)
    ELSE LET r == create(tbl, nid, serializer.validated)
         IN  IF r.exc # ""
             THEN Response(HTTP_500_INTERNAL_SERVER_ERROR,
                           Body("", 0, "username" :> r.exc, <<>>), tbl)
             ELSE Response(HTTP_201_CREATED,
                           Body("User created successfully", r.id, <<>>, <<>>),
                           r.tbl)

CreateUserAPI_get ==
    [status |-> HTTP_200_OK,
     body |-> Body("This endpoint is for creating users only. Use POST method.",
                   0, <<>>, [f \in FieldSet \cup {"id"} |-> <<>>])]

UpdateUserAPI_get(tbl, user) ==
    Response(HTTP_200_OK, Body("", 0, <<>>, to_representation(user)), tbl)

UpdateUserAPI_put(tbl, user, data) ==
    LET serializer == run_validation(data, TRUE)
    IN
    IF ~is_valid(serializer)
    THEN Response(HTTP_400_BAD_REQUEST,
                  Body("", 0, serializer.errors, <<>>), tbl)
    ELSE LET r == update(tbl, user, serializer.validated)
         IN  IF r.exc # ""
             THEN Response(HTTP_400_BAD_REQUEST,
                           Body("", 0, "username" :> r.exc, <<>>), tbl)
             ELSE Response(HTTP_200_OK,
                           Body("User updated successfully", 0, <<>>, <<>>),
                           r.tbl)

DeleteUserAPI_delete(tbl, user) ==
    LET r == objects_delete(tbl, user.id)
    IN  IF r.exc # ""
        THEN Response(HTTP_500_INTERNAL_SERVER_ERROR,
                      Body("", 0, "error" :> "Failed to delete user.", <<>>), tbl)
        ELSE Response(HTTP_200_OK,
                      Body("User deleted successfully", 0, <<>>, <<>>), r.tbl)

\* AuthenticationForm.is_valid: both fields are required
AuthenticationForm_is_valid(username_or_email, password) ==
    username_or_email # <<>> /\ password # <<>>

\* resolved: what get_user_from_form returned; authCalled: authenticate() was
\* called; user: the user handed to login(), 0 when login() was not called
LoginResult(outcome, message, status, resolved, authCalled, user) ==
    [outcome |-> outcome, message |-> message, status |-> status,
     resolved |-> resolved, authCalled |-> authCalled, user |-> user]

\* variant: the resolved user is logged in whatever authenticate() returned
login_view_unchecked(tbl, method, username_or_email, password, hasNext) ==
    IF method = "POST"
    THEN IF AuthenticationForm_is_valid(username_or_email, password)
         THEN LET found == get_user_from_form(tbl, username_or_email)
              IN  IF found = 0
                  THEN LoginResult("Rejected",
                         "This User not exist you need to Register First",
                         HTTP_200_OK, found, FALSE, 0)
                  ELSE LoginResult("Authenticated", "", HTTP_302_FOUND,
                                   found, TRUE, found)
         ELSE LoginResult("FormInvalid", "InValid form return to Admin",
                          HTTP_200_OK, 0, FALSE, 0)
    ELSE LoginResult("FormShown",
                     IF hasNext THEN "You must login first to access this link"
                     ELSE "",
                     HTTP_200_OK, 0, FALSE, 0)

login_view(tbl, method, username_or_email, password, hasNext) ==
    IF method = "POST"
    THEN IF AuthenticationForm_is_valid(username_or_email, password)
         THEN LET found == get_user_from_form(tbl, username_or_email)
              IN  IF found = 0
                  THEN LoginResult("Rejected",
                         "This User not exist you need to Register First",
                         HTTP_200_OK, found, FALSE, 0)
                  ELSE LET user == authenticate(tbl, tbl[found].username, password)
                       IN  IF user # 0
                           THEN LoginResult("Authenticated", "", HTTP_302_FOUND,
                                            found, TRUE, user)
                           ELSE LoginResult("Rejected", "Th Password is not valid",
                                            HTTP_200_OK, found, TRUE, 0)
         ELSE LoginResult("FormInvalid", "InValid form return to Admin",
                          HTTP_200_OK, 0, FALSE, 0)
    ELSE LoginResult("FormShown",
                     IF hasNext THEN "You must login first to access this link"
                     ELSE "",
                     HTTP_200_OK, 0, FALSE, 0)

(***************************************************************************)
(* Request inputs.                                                         *)
(***************************************************************************)
sA == <<"a">>
sMailA == <<"a", "@", "a", ".", "a", "a">>
sMailX == <<"!", "@", "a", ".", "a", "a">>
pw1 == <<"p", "1">>
pw2 == <<"q", "2">>
Passwords == {pw1, pw2}

ValidValues(f) ==
    CASE f = "username" -> {sA, sMailA}
      [] f = "first_name" -> {<<"F">>}
      [] f = "last_name" -> {<<"L">>}
      [] f = "email" -> {sMailA, sMailX}
      [] f = "password" -> {pw2}
      [] f = "birthdate" -> {<<"2", "0", "0", "0", "-", "0", "2", "-", "2", "9">>, JNull}
      [] f = "nationalid" -> {<<"7">>}
      [] f = "phonenumber" -> {<<"7", "7", "7">>}
      [] f = "wallet" -> {<<"5", ".", "5">>}

BadValues(f) ==
    CASE f = "username" -> {Rep("a", UsernameMaxLength + 1), JNull}
      [] f = "first_name" -> {Rep("F", FirstNameMaxLength + 1)}
      [] f = "last_name" -> {Rep("L", LastNameMaxLength + 1)}
      [] f = "email" -> {sA}
      [] f = "password" -> {<<>>}
      [] f = "birthdate" -> {<<"2", "0", "0", "1", "-", "0", "2", "-", "2", "9">>}
      [] f = "nationalid" -> {<<"x">>}
      [] f = "phonenumber" -> {Rep("5", PhoneMaxLength + 1)}
      [] f = "wallet" -> {<<"5", ".", "5", "5", "5">>}

Restrict(d, S) == [f \in S |-> d[f]]

OptionalPayload ==
    [first_name |-> <<"F">>, last_name |-> <<"L">>,
     birthdate |-> <<"2", "0", "0", "0", "-", "0", "2", "-", "2", "9">>,
     nationalid |-> <<"7">>, wallet |-> <<"5", ".", "5">>]

RequiredPayload(u, e) ==
    [username |-> u, email |-> e, password |-> pw1,
     phonenumber |-> <<"5", "5", "5">>]

BasePayload == RequiredPayload(sA, sMailA) @@ OptionalPayload

ValidCreatePayloads ==
    {RequiredPayload(u, e) :
        u \in ValidValues("username"), e \in ValidValues("email")}
    \cup {BasePayload}

CreatePayloads ==
    ValidCreatePayloads
    \cup {Restrict(BasePayload, FieldSet \ {f}) : f \in RequiredFields}
    \cup UNION {{(f :> v) @@ BasePayload : v \in BadValues(f)} : f \in FieldSet}

UpdatePayloads ==
    UNION {{f :> v : v \in ValidValues(f) \cup BadValues(f)} : f \in FieldSet}
    \cup {<<>>,
          (("username" :> sMailA) @@ ("email" :> sMailX) @@ ("password" :> pw2)
             @@ ("phonenumber" :> <<"7", "7", "7">>) @@ OptionalPayload),
          (("first_name" :> <<"F">>) @@ ("email" :> sA))}

LoginIdentifiers == {<<>>, sA, sMailA, sMailX}
LoginPasswords == Passwords

(***************************************************************************)
(* State: the User table, the id the next insert takes, the user id held   *)
(* by the client's session (0: none), the last request with its response,  *)
(* the update requests in flight and the number of requests served.        *)
(***************************************************************************)
VARIABLES users, nextId, session, last, inflight, steps

vars == <<users, nextId, session, last, inflight, steps>>

NoLogin == [username_or_email |-> <<>>, password |-> <<>>, outcome |-> "",
            resolved |-> 0, authCalled |-> FALSE, user |-> 0]

Last(op, user, data, status, body, login) ==
    [op |-> op, user |-> user, data |-> data, status |-> status,
     body |-> body, login |-> login]

\* request.user, from the session
RequestUser == IF session \in DOMAIN users THEN users[session] ELSE AnonymousUser

Init ==
    /\ users = <<>>
    /\ nextId = 1
    /\ session = 0
    /\ last = Last("", 0, <<>>, 0, Body("", 0, <<>>, <<>>), NoLogin)
    /\ inflight = <<>>
    /\ steps = 0

Step == steps < MaxSteps /\ steps' = steps + 1

CreatePostWith(payloads) ==
    /\ Step
    /\ nextId <= MaxUsers
    /\ \E data \in payloads :
         LET r == CreateUserAPI_post(users, nextId, data)
         IN  /\ users' = r.tbl
             /\ nextId' = IF r.status = HTTP_201_CREATED THEN nextId + 1 ELSE nextId
             /\ last' = Last("create", 0, data, r.status, r.body, NoLogin)
    /\ UNCHANGED <<session, inflight>>

ApiCreatePost == CreatePostWith(CreatePayloads)

ApiCreateGet ==
    /\ Step
    /\ last' = Last("create_get", 0, <<>>, CreateUserAPI_get.status,
                    CreateUserAPI_get.body, NoLogin)
    /\ UNCHANGED <<users, nextId, session, inflight>>

ApiProfileGet ==
    /\ Step
    /\ LET r == IF UpdatePermission(RequestUser)
                THEN UpdateUserAPI_get(users, RequestUser)
                ELSE NotAuthenticated(users)
       IN  last' = Last("get", RequestUser.id, <<>>, r.status, r.body, NoLogin)
    /\ UNCHANGED <<users, nextId, session, inflight>>

ApiUpdatePut ==
    /\ Step
    /\ \E data \in UpdatePayloads :
         LET r == IF UpdatePermission(RequestUser)
                  THEN UpdateUserAPI_put(users, RequestUser, data)
                  ELSE NotAuthenticated(users)
         IN  /\ users' = r.tbl
             /\ last' = Last("put", RequestUser.id, data, r.status, r.body, NoLogin)
    /\ UNCHANGED <<nextId, session, inflight>>

ApiDelete ==
    /\ Step
    /\ LET r == IF DeletePermission(RequestUser)
                THEN DeleteUserAPI_delete(users, RequestUser)
                ELSE NotAuthenticated(users)
       IN  /\ users' = r.tbl
           /\ last' = Last("delete", RequestUser.id, <<>>, r.status, r.body, NoLogin)
    /\ UNCHANGED <<nextId, session, inflight>>

LoginWith(methods, identifiers, passwords) ==
    /\ Step
    /\ \E method \in methods :
       \E ident \in (IF method = "POST" THEN identifiers ELSE {<<>>}) :
       \E pw \in (IF method = "POST" THEN passwords ELSE {<<>>}) :
       \E hasNext \in (IF method = "GET" THEN BOOLEAN ELSE {FALSE}) :
         LET r == login_view(users, method, ident, pw, hasNext)
         IN  /\ session' = IF r.user # 0 THEN r.user ELSE session
             /\ last' = Last("login", RequestUser.id, <<>>, r.status,
                             Body(r.message, 0, <<>>, <<>>),
                             [username_or_email |-> ident, password |-> pw,
                              outcome |-> r.outcome, resolved |-> r.resolved,
                              authCalled |-> r.authCalled, user |-> r.user])
    /\ UNCHANGED <<users, nextId, inflight>>

Login == LoginWith({"GET", "POST"}, LoginIdentifiers, LoginPasswords \cup {<<>>})

Logout ==
    /\ Step
    /\ session' = 0
    /\ last' = Last("logout", RequestUser.id, <<>>, HTTP_200_OK,
                    Body("This Should be application Main Page", 0, <<>>, <<>>),
                    NoLogin)
    /\ UNCHANGED <<users, nextId, inflight>>

Next ==
    \/ ApiCreatePost
    \/ ApiCreateGet
    \/ ApiProfileGet
    \/ ApiUpdatePut
    \/ ApiDelete
    \/ Login
    \/ Logout

Spec == Init /\ [][Next]_vars

(***************************************************************************)
(* Concurrent updates: a PUT loads request.user when the request is        *)
(* authenticated, and validates, merges and saves later; two requests of   *)
(* the same session may be in flight.                                      *)
(***************************************************************************)
Slots == {1, 2}

ConcUpdatePayloads ==
    UNION {{f :> v : v \in ValidValues(f)} : f \in FieldSet \ {"password"}}

PutBegin ==
    /\ \E r \in Slots \ DOMAIN inflight : \E data \in ConcUpdatePayloads :
         IF UpdatePermission(RequestUser)
         THEN /\ inflight' = (r :> [user |-> RequestUser, data |-> data,
                                    done |-> FALSE, status |-> 0]) @@ inflight
              /\ UNCHANGED last
         ELSE /\ last' = Last("put", 0, data, NotAuthenticated(users).status,
                              NotAuthenticated(users).body, NoLogin)
              /\ UNCHANGED inflight
    /\ UNCHANGED <<users, nextId, session, steps>>

PutFinish ==
    /\ \E r \in DOMAIN inflight :
         /\ ~inflight[r].done
         /\ LET q == inflight[r]
                res == UpdateUserAPI_put(users, q.user, q.data)
            IN  /\ users' = res.tbl
                /\ last' = Last("put", q.user.id, q.data, res.status, res.body,
                                NoLogin)
                /\ inflight' = [inflight EXCEPT ![r].done = TRUE,
                                                ![r].status = res.status]
    /\ UNCHANGED <<nextId, session, steps>>

ConcCreate == CreatePostWith({BasePayload}) /\ inflight = <<>>

ConcLogin == LoginWith({"POST"}, {sA, sMailA}, {pw1}) /\ inflight = <<>>

NextConc ==
    \/ ConcCreate
    \/ ConcLogin
    \/ PutBegin
    \/ PutFinish

SpecConc == Init /\ [][NextConc]_vars

(***************************************************************************)
(* Properties.                                                             *)
(***************************************************************************)
AllColumns == FieldSet \cup {"id"}

PutSucceeded == last.op = "put" /\ last.status = HTTP_200_OK

\* C1: a successful Update leaves every field of the acting user's record
\* that the request did not supply at its previous value, and leaves every
\* other user's record as it was.
C1_OmittedFieldsKept ==
    [][(last'.op = "put" /\ last'.status = HTTP_200_OK) =>
          /\ DOMAIN users' = DOMAIN users
          /\ \A id \in DOMAIN users :
               IF id = last'.user
               THEN \A f \in AllColumns \ DOMAIN last'.data :
                       users'[id][f] = users[id][f]
               ELSE users'[id] = users[id]]_vars

C1_Witness ==
    /\ PutSucceeded
    /\ DOMAIN last.data = {"phonenumber"}
    /\ Cardinality(DOMAIN users) = 2
    /\ users[last.user].phonenumber = <<"7", "7", "7">>
    /\ users[last.user].first_name = <<"F">>
    /\ users[last.user].wallet = 550

\* C2: after a successful Update every supplied field of the acting user's
\* record, the password included, holds the supplied (validated) value.
C2_SuppliedFieldsMerged ==
    PutSucceeded =>
        \A f \in DOMAIN last.data \cap FieldSet :
            users[last.user][f] = ValidateField(f, last.data[f]).val

LoginSubmitted ==
    /\ last.op = "login"
    /\ last.login.outcome \in {"Authenticated", "Rejected"}

HoldersOf(column, value) == {j \in DOMAIN users : users[j][column] = value}

\* C3: the resolver looks the identifier up by email exactly when it is
\* email-shaped and by username otherwise; what it returns is a record of
\* that key, and with no record of that key it returns "not found" whatever
\* the other key holds.
C3_SingleLookup ==
    LoginSubmitted =>
        LET ident == last.login.username_or_email
            key == IF email_regex(ident) THEN "email" ELSE "username"
        IN  /\ last.login.resolved # 0 =>
                  /\ last.login.resolved \in DOMAIN users
                  /\ users[last.login.resolved][key] = ident
            /\ HoldersOf(key, ident) = {} => last.login.resolved = 0
            /\ Cardinality(HoldersOf(key, ident)) = 1 => last.login.resolved # 0

C3_Witness ==
    /\ LoginSubmitted
    /\ email_regex(last.login.username_or_email)
    /\ HoldersOf("email", last.login.username_or_email) = {}
    /\ HoldersOf("username", last.login.username_or_email) # {}
    /\ last.login.resolved = 0

\* the login attempt recorded in last, judged from the table
LoginJudged ==
    LET ident == last.login.username_or_email
        pw == last.login.password
        valid == ident # <<>> /\ pw # <<>>
        holders == HoldersOf(IF email_regex(ident) THEN "email" ELSE "username",
                             ident)
        found == Cardinality(holders) = 1
        accepted == found /\ \E j \in holders : users[j].password = pw
    IN  /\ valid <=> last.login.outcome \in {"Authenticated", "Rejected"}
        /\ last.login.outcome = "Authenticated" <=> (valid /\ accepted)
        /\ ~found => ~last.login.authCalled
        /\ last.login.outcome # "Authenticated" => last.login.user = 0
        /\ last.login.outcome = "Authenticated" =>
              /\ last.login.user \in holders
              /\ last.status = HTTP_302_FOUND
              /\ session = last.login.user

\* C4: a submitted, form-valid login ends in exactly one of Authenticated
\* and Rejected; it is Authenticated only when the resolver found a record
\* and the authenticator accepted the password; the authenticator is not
\* called when nothing was found; a session is established by no other
\* path.
C4_LoginStateMachine ==
    [][/\ (last'.op = "login" /\ last'.login.outcome # "FormShown") => LoginJudged'
       /\ (session' # session /\ session' # 0) =>
             /\ last'.op = "login"
             /\ last'.login.outcome = "Authenticated"]_vars

C4_Witness ==
    /\ last.op = "login"
    /\ last.login.outcome = "Authenticated"
    /\ last.login.authCalled
    /\ session = last.login.user
    /\ session \in DOMAIN users

\* C5: every rejected login gets the same response, whatever the cause: the
\* response of the rejected attempt in last is the one any other rejected
\* attempt on the same table gets.
C5_GenericRejection ==
    (last.op = "login" /\ last.login.outcome = "Rejected") =>
        \A ident \in LoginIdentifiers : \A pw \in LoginPasswords :
            LET other == login_view(users, "POST", ident, pw, FALSE)
            IN  other.outcome = "Rejected" =>
                    /\ other.message = last.body.message
                    /\ other.status = last.status

AuthorizationErrors == {401, 403}

\* C6: a Delete or Update without an authenticated identity is answered
\* with an authorization error and changes nothing; a record is removed only
\* by a Delete of its own authenticated user and modified only by an Update
\* of its own authenticated user.
C6_OnlyOwnerMutates ==
    [][/\ (last'.op \in {"put", "delete"} /\ session \notin DOMAIN users) =>
             /\ last'.status \in AuthorizationErrors
             /\ users' = users
       /\ \A id \in DOMAIN users :
             /\ id \notin DOMAIN users' => (last'.op = "delete" /\ session = id)
             /\ (id \in DOMAIN users' /\ users'[id] # users[id]) =>
                   (last'.op = "put" /\ session = id)]_vars

C6_Witness ==
    /\ last.op = "delete"
    /\ last.user = 0
    /\ last.status = HTTP_403_FORBIDDEN
    /\ users # <<>>

UsernamesUnique(tbl) ==
    \A i \in DOMAIN tbl : \A j \in DOMAIN tbl :
        i # j => tbl[i].username # tbl[j].username

Failed == last.status >= 400 /\ DOMAIN last.body.error # {}

\* C7: no two records ever have the same username; a Create of an existing
\* username fails and leaves the table as it was, and so does an Update
\* that takes the username of another record.
C7_UsernameUnique ==
    [][/\ UsernamesUnique(users')
       /\ (/\ last'.op = "create"
           /\ "username" \in DOMAIN last'.data
           /\ HoldersOf("username", last'.data.username) # {})
          => (Failed' /\ users' = users /\ nextId' = nextId)
       /\ (/\ last'.op = "put"
           /\ session \in DOMAIN users
           /\ "username" \in DOMAIN last'.data
           /\ HoldersOf("username", last'.data.username) \ {session} # {})
          => (Failed' /\ users' = users)]_vars

C7_Witness ==
    /\ last.op = "put"
    /\ last.status = HTTP_400_BAD_REQUEST
    /\ last.body.error = ("username" :> "IntegrityError")
    /\ Cardinality(DOMAIN users) = 2
    /\ UsernamesUnique(users)

\* the fields of a payload that are missing though required, or malformed
Offending(data, partial) ==
    (IF partial THEN {} ELSE RequiredFields \ DOMAIN data)
    \cup {f \in DOMAIN data : data[f] \in BadValues(f)}

\* C8: a Create whose payload misses a required field or has a malformed
\* field fails with an error that names each such field, and creates and
\* changes nothing; an Update with a malformed supplied field does the same.
C8_ValidationFailsWhole ==
    [][/\ (last'.op = "create" /\ Offending(last'.data, FALSE) # {}) =>
             /\ last'.status >= 400
             /\ Offending(last'.data, FALSE) \subseteq DOMAIN last'.body.error
             /\ users' = users /\ nextId' = nextId
       /\ (/\ last'.op = "put" /\ session \in DOMAIN users
           /\ Offending(last'.data, TRUE) # {}) =>
             /\ last'.status >= 400
             /\ Offending(last'.data, TRUE) \subseteq DOMAIN last'.body.error
             /\ users' = users]_vars

C8_Witness ==
    /\ last.op = "create"
    /\ "email" \notin DOMAIN last.data
    /\ last.status = HTTP_500_INTERNAL_SERVER_ERROR
    /\ last.body.error = ("email" :> "required")
    /\ users # <<>>

\* the passwords stored in the table or submitted with the last request
Secrets ==
    ({users[j].password : j \in DOMAIN users}
     \cup (IF "password" \in DOMAIN last.data THEN {last.data.password} ELSE {}))
    \cap Passwords

\* C9: no response body of the JSON API carries a stored or submitted
\* password: there is no password entry in it, and none of its values is
\* one of those passwords.
C9_PasswordWriteOnly ==
    last.op \in {"create", "create_get", "get", "put", "delete"} =>
        /\ last.op # "create_get" => "password" \notin DOMAIN last.body.data
        /\ \A f \in DOMAIN last.body.data : last.body.data[f] \notin Secrets

C9_Witness ==
    /\ last.op = "get"
    /\ last.status = HTTP_200_OK
    /\ last.user \in DOMAIN users
    /\ users[last.user].password \in Passwords
    /\ last.body.data.username = users[last.user].username

BothDone ==
    /\ DOMAIN inflight = Slots
    /\ \A r \in Slots : inflight[r].done /\ inflight[r].status = HTTP_200_OK
    /\ inflight[1].user = inflight[2].user

\* C10: when two Updates of the same record that loaded the same record
\* have both completed, a field supplied by exactly one of them holds that
\* request's value, a field supplied by both holds one of the two values and
\* a field supplied by neither holds the value that was loaded.
C10_PerFieldLastWriteWins ==
    BothDone =>
        LET id == inflight[1].user.id
            supplied(r) == DOMAIN inflight[r].data
            value(r, f) == ValidateField(f, inflight[r].data[f]).val
        IN  \A f \in FieldSet :
              /\ (f \in supplied(1) \ supplied(2)) => users[id][f] = value(1, f)
              /\ (f \in supplied(2) \ supplied(1)) => users[id][f] = value(2, f)
              /\ (f \in supplied(1) \cap supplied(2)) =>
                    users[id][f] \in {value(1, f), value(2, f)}
              /\ (f \notin supplied(1) \cup supplied(2)) =>
                    users[id][f] = inflight[1].user[f]

====
